---- MODULE Spec2Model ----
(***************************************************************************)
(* Model of ArduPlane/tiltrotor.cpp: the tilt slew limiter, the            *)
(* continuous and binary tilt update, the thrust compensation callback     *)
(* and the tilt vectoring output.                                          *)
(*                                                                         *)
(* The C++ code computes in float.  The model computes in exact rational   *)
(* arithmetic: a value is a pair <<n, d>> with d > 0 and gcd(n, d) = 1.    *)
(* sinf and cosf are modelled by a parabola that is exact at 0 and at 90    *)
(* degrees, monotonic in between and stays in [0, 1] on a quarter turn.    *)
(***************************************************************************)
EXTENDS Integers, Sequences, FiniteSets, TLC

\* ------------------------------------------------------------------------
\* float arithmetic, modelled on exact rationals
\* ------------------------------------------------------------------------

IAbs(n) == IF n < 0 THEN -n ELSE n

RECURSIVE GCD(_, _)
GCD(a, b) == IF b = 0 THEN a ELSE GCD(b, a % b)

\* the rational n/d in lowest terms with a positive denominator
Norm(n, d) ==
    LET s == IF d < 0 THEN -1 ELSE 1
        g == GCD(IAbs(n), IAbs(d))
    IN  << (s * n) \div g, (s * d) \div g >>

\* an integer (int16 parameter, scaled servo output) converted to float
R(n) == << n, 1 >>

Zero == R(0)
One == R(1)

RNeg(a) == << -a[1], a[2] >>

RAdd(a, b) ==
    LET g == GCD(a[2], b[2])
    IN  Norm(a[1] * (b[2] \div g) + b[1] * (a[2] \div g), a[2] * (b[2] \div g))

RSub(a, b) == RAdd(a, RNeg(b))

RMul(a, b) ==
    LET g1 == GCD(IAbs(a[1]), b[2])
        g2 == GCD(IAbs(b[1]), a[2])
    IN  Norm((a[1] \div g1) * (b[1] \div g2), (a[2] \div g2) * (b[2] \div g1))

\* a / b for b # 0
RDiv(a, b) == RMul(a, IF b[1] < 0 THEN << -b[2], -b[1] >> ELSE << b[2], b[1] >>)

RLt(a, b) ==
    LET g == GCD(a[2], b[2])
    IN  a[1] * (b[2] \div g) < b[1] * (a[2] \div g)

RLe(a, b) == ~RLt(b, a)

RAbs(a) == << IAbs(a[1]), a[2] >>

\* MAX(a, b) of AP_Math
RMax(a, b) == IF RLt(a, b) THEN b ELSE a

\* constrain_float(amt, low, high) of AP_Math: low if amt < low, high if
\* amt > high, amt otherwise (in this order)
constrain_float(amt, low, high) ==
    IF RLt(amt, low) THEN low
    ELSE IF RLt(high, amt) THEN high
    ELSE amt

\* 1 / FLT_EPSILON = 2^23
FLT_EPSILON_INV == 8388608

\* is_zero(x): fabsf(x) < FLT_EPSILON, i.e. |n| * 2^23 < d
is_zero(x) == IAbs(x[1]) <= (x[2] - 1) \div FLT_EPSILON_INV

\* is_negative(x): x <= -FLT_EPSILON
is_negative(x) == x[1] < 0 /\ ~is_zero(x)

\* cosine of x degrees, -90 <= x <= 90 (cosf(radians(x))), by the parabola
\* 1 - (x / 90)^2
cos_deg(x) ==
    LET t == RDiv(x, R(90))
    IN  RSub(One, RMul(t, t))

\* sine of x degrees, 0 <= x <= 180 (sinf(radians(x)))
sin_deg(x) == cos_deg(RSub(R(90), x))

\* ------------------------------------------------------------------------
\* program constants
\* ------------------------------------------------------------------------

TILT_TYPE_CONTINUOUS == 0
TILT_TYPE_BINARY == 1
TILT_TYPE_VECTORED_YAW == 2
TILT_TYPE_BICOPTER == 3

\* Tiltrotor_Transition sub-states, in their declared order
TRANSITION_AIRSPEED_WAIT == 0
TRANSITION_TIMER == 1
TRANSITION_DONE == 2

\* minimum rate of a fast tilt, in degrees per second
FAST_TILT_DPS == 90

\* the range of the tilt servo outputs
SERVO_RANGE == 1000

\* the range of the elevon and elevator outputs (an angle of 45 degrees in
\* centidegrees)
ANGLE_RANGE == 4500

TILT_DELAY_MS == 3000

\* the halves of a uint32_t millisecond time stamp: a time stamp is a pair
\* <<hi, lo>> standing for hi * 2^16 + lo
HALF_WORD == 65536

\* ------------------------------------------------------------------------
\* state
\* ------------------------------------------------------------------------

VARIABLES
    param,            \* the Q_TILT_* parameters and setup_complete
    current_tilt,     \* Tiltrotor::current_tilt
    current_throttle, \* Tiltrotor::current_throttle
    motors_active,    \* Tiltrotor::_motors_active
    flight,           \* control mode, arming, VTOL and assist flags, G_Dt
    clock,            \* AP_HAL::millis() and the time of the last arm change
    demand,           \* mixer and pilot demands read by update()
    srv,              \* scaled outputs of the tilt servo channels
    fwd_out,          \* the call of motors->output_motor_mask(), if any
    slew_call,        \* the slew()/binary_slew() call of the last update()
    vec_call,         \* the branch vectoring() took in the last update()
    thrust,           \* the thrust array handed to tilt_compensate()
    comp,             \* inputs and intermediate values of tilt_compensate()
    yaw,              \* the yaw target of a forward transition and its caller
    bicopter_call     \* the branch bicopter_output() took in its last call

vars == << param, current_tilt, current_throttle, motors_active, flight, clock,
           demand, srv, fwd_out, slew_call, vec_call, thrust, comp, yaw, bicopter_call >>

\* the machine state update() works on, as one record
Machine ==
    [ current_tilt |-> current_tilt,
      current_throttle |-> current_throttle,
      motors_active |-> motors_active,
      srv |-> srv,
      fwd_out |-> fwd_out,
      slew_call |-> slew_call,
      vec_call |-> vec_call ]

\* no call of output_motor_mask()
NoFwdOut == [ called |-> FALSE, throttle |-> Zero, mask |-> 0 ]

\* no call of slew() or binary_slew()
NoSlewCall ==
    [ calls |-> 0, fn |-> "none", tilt_before |-> Zero, newtilt |-> Zero,
      max_change |-> Zero ]

\* vectoring() not called
NoVecCall == [ branch |-> "none", written |-> {} ]

\* bicopter_output() not called: the branch it took, the mixer call it made,
\* the channels it wrote and the values before constrain_float()
NoBicopterCall ==
    [ branch |-> "none", mixer |-> "none", written |-> {},
      preclip |-> << Zero, Zero >> ]

\* the five tilt servo channels of a tilt-vectored vehicle
TiltChannels ==
    { "k_tiltMotorLeft", "k_tiltMotorRight", "k_tiltMotorRear",
      "k_tiltMotorRearLeft", "k_tiltMotorRearRight" }

\* ------------------------------------------------------------------------
\* Tiltrotor
\* ------------------------------------------------------------------------

\* Tiltrotor::enabled(), declared in tiltrotor.h
enabled == param.enable > 0 /\ param.setup_complete

\* tilt_max_change() with the fast tilt also given to binary tilt servos
tilt_rate_fast_binary(f, up) ==
    LET rate == IF up \/ param.max_rate_down_dps <= 0
                THEN param.max_rate_up_dps
                ELSE param.max_rate_down_dps
        fast_tilt ==
            \/ f.control_mode = "manual"
            \/ f.soft_armed /\ ~f.in_vtol_mode /\ ~f.assisted_flight
    IN  IF ~up /\ fast_tilt /\ rate < FAST_TILT_DPS
        THEN FAST_TILT_DPS
        ELSE rate

\* the rate tilt_max_change() uses, in degrees per second
tilt_rate(f, up) ==
    LET rate == IF up \/ param.max_rate_down_dps <= 0
                THEN param.max_rate_up_dps
                ELSE param.max_rate_down_dps
        fast_tilt ==
            \/ f.control_mode = "manual"
            \/ f.soft_armed /\ ~f.in_vtol_mode /\ ~f.assisted_flight
    IN  IF param.type # TILT_TYPE_BINARY /\ ~up /\ fast_tilt /\ rate < FAST_TILT_DPS
        THEN FAST_TILT_DPS
        ELSE rate

\* Tiltrotor::tilt_max_change(up): rate * plane.G_Dt / 90.0f
tilt_max_change(f, up) == RDiv(RMul(R(tilt_rate(f, up)), f.G_Dt), R(90))

\* slew() without the rate limit
slew_tilt_unlimited(tilt, newtilt, max_change) == newtilt

\* slew() always moving by the full step
slew_tilt_full_step(tilt, newtilt, max_change) ==
    IF RLt(newtilt, tilt) THEN RSub(tilt, max_change) ELSE RAdd(tilt, max_change)

\* slew() refusing the step that would bring the tilt to 1
slew_tilt_never_full(tilt, newtilt, max_change) ==
    LET t == constrain_float(newtilt, RSub(tilt, max_change),
                             RAdd(tilt, max_change))
    IN  IF RLe(One, t) THEN tilt ELSE t

\* the tilt slew() moves to
slew_tilt(tilt, newtilt, max_change) ==
    constrain_float(newtilt, RSub(tilt, max_change), RAdd(tilt, max_change))

\* Tiltrotor::slew(newtilt)
slew(s, f, newtilt) ==
    LET max_change == tilt_max_change(f, RLt(newtilt, s.current_tilt))
        tilt == slew_tilt(s.current_tilt, newtilt, max_change)
        out == RMul(R(SERVO_RANGE), tilt)
    IN  [ s EXCEPT
            !.current_tilt = tilt,
            !.srv = [ @ EXCEPT !["k_motor_tilt"] = out ],
            !.slew_call = [ calls |-> @.calls + 1, fn |-> "slew",
                            tilt_before |-> s.current_tilt,
                            newtilt |-> newtilt,
                            max_change |-> max_change ] ]

\* the forward throttle kept when the vehicle is disarmed
fixed_wing_throttle_disarmed_too(s, f, d) ==
    LET max_change == tilt_max_change(f, FALSE)
        new_throttle ==
            constrain_float(RDiv(R(d.k_throttle), R(100)), Zero, One)
    IN  IF RLt(s.current_tilt, One)
        THEN constrain_float(new_throttle,
                             RSub(s.current_throttle, max_change),
                             RAdd(s.current_throttle, max_change))
        ELSE new_throttle

\* the forward throttle following the demand at once at any tilt
fixed_wing_throttle_unslewed(s, f, d) ==
    IF ~f.soft_armed
    THEN Zero
    ELSE constrain_float(RDiv(R(d.k_throttle), R(100)), Zero, One)

\* the forward throttle of the pure fixed wing regime of continuous_update()
fixed_wing_throttle(s, f, d) ==
    LET max_change == tilt_max_change(f, FALSE)
        new_throttle ==
            constrain_float(RDiv(R(d.k_throttle), R(100)), Zero, One)
        slewed ==
            IF RLt(s.current_tilt, One)
            THEN constrain_float(new_throttle,
                                 RSub(s.current_throttle, max_change),
                                 RAdd(s.current_throttle, max_change))
            ELSE new_throttle
    IN  IF ~f.soft_armed THEN Zero ELSE slewed

\* the tilt asked for with QACRO, QSTABILIZE and QHOVER always at 0
vtol_tilt_target_no_manual_input(f, d) ==
    IF f.control_mode = "qautotune"
    THEN Zero
    ELSE IF ~f.assisted_flight
            /\ f.control_mode \in { "qacro", "qstabilize", "qhover" }
    THEN Zero
    ELSE IF f.assisted_flight /\ f.transition_state >= TRANSITION_TIMER
    THEN One
    ELSE LET floor == IF d.throttle_min > 0 THEN d.throttle_min ELSE 0
             settilt == constrain_float(RDiv(R(d.k_throttle - floor), R(50)),
                                        Zero, One)
         IN  RDiv(RMul(settilt, R(param.max_angle_deg)), R(90))

\* the tilt asked for without the limit Q_TILT_MAX
vtol_tilt_target_unlimited(f, d) ==
    IF f.control_mode = "qautotune"
    THEN Zero
    ELSE IF ~f.assisted_flight
            /\ f.control_mode \in { "qacro", "qstabilize", "qhover" }
    THEN IF ~d.rc_fwd_thr_ch
         THEN Zero
         ELSE RDiv(R(d.forward_throttle_pct), R(100))
    ELSE IF f.assisted_flight /\ f.transition_state >= TRANSITION_TIMER
    THEN One
    ELSE LET floor == IF d.throttle_min > 0 THEN d.throttle_min ELSE 0
         IN  constrain_float(RDiv(R(d.k_throttle - floor), R(50)), Zero, One)

\* the tilt continuous_update() asks for in the VTOL regime
vtol_tilt_target(f, d) ==
    IF f.control_mode = "qautotune"
    THEN Zero
    ELSE IF ~f.assisted_flight
            /\ f.control_mode \in { "qacro", "qstabilize", "qhover" }
    THEN IF ~d.rc_fwd_thr_ch
         THEN Zero
         ELSE RDiv(R(d.forward_throttle_pct), R(100))
    ELSE IF f.assisted_flight /\ f.transition_state >= TRANSITION_TIMER
    THEN One
    ELSE LET floor == IF d.throttle_min > 0 THEN d.throttle_min ELSE 0
             settilt == constrain_float(RDiv(R(d.k_throttle - floor), R(50)),
                                        Zero, One)
         IN  RDiv(RMul(settilt, R(param.max_angle_deg)), R(90))

\* Tiltrotor::continuous_update()
continuous_update(s, f, d) ==
    LET s0 == [ s EXCEPT !.motors_active = FALSE ]
    IN  IF ~f.in_vtol_mode /\ (~f.soft_armed \/ ~f.assisted_flight)
        THEN LET s1 == slew(s0, f, One)
                 throttle == fixed_wing_throttle(s1, f, d)
                 s2 == [ s1 EXCEPT !.current_throttle = throttle,
                                   !.motors_active = f.soft_armed ]
                 mask == IF is_zero(throttle) THEN 0 ELSE param.tilt_mask
             IN  IF ~f.motor_test_running
                 THEN [ s2 EXCEPT !.fwd_out = [ called |-> TRUE,
                                                throttle |-> throttle,
                                                mask |-> mask ] ]
                 ELSE s2
        ELSE LET max_change ==
                     tilt_max_change(f, RLt(d.motors_throttle, s0.current_throttle))
                 throttle ==
                     constrain_float(d.motors_throttle,
                                     RSub(s0.current_throttle, max_change),
                                     RAdd(s0.current_throttle, max_change))
                 s1 == [ s0 EXCEPT !.current_throttle = throttle ]
             IN  slew(s1, f, vtol_tilt_target(f, d))

\* binary_slew() without the limits 0 and 1
binary_slew_tilt_unconstrained(tilt, forward, max_change) ==
    IF forward THEN RAdd(tilt, max_change) ELSE RSub(tilt, max_change)

\* the tilt binary_slew() moves to
binary_slew_tilt(tilt, forward, max_change) ==
    IF forward
    THEN constrain_float(RAdd(tilt, max_change), Zero, One)
    ELSE constrain_float(RSub(tilt, max_change), Zero, One)

\* Tiltrotor::binary_slew(forward)
binary_slew(s, f, forward) ==
    LET out == IF forward THEN R(SERVO_RANGE) ELSE Zero
        max_change == tilt_max_change(f, ~forward)
    IN  [ s EXCEPT
            !.srv = [ @ EXCEPT !["k_motor_tilt"] = out ],
            !.current_tilt = binary_slew_tilt(@, forward, max_change),
            !.slew_call = [ calls |-> @.calls + 1, fn |-> "binary_slew",
                            tilt_before |-> s.current_tilt,
                            newtilt |-> IF forward THEN One ELSE Zero,
                            max_change |-> max_change ] ]

\* binary_update() handing over the throttle as soon as the tilt has left 0
binary_fwd_thrust_early(tilt) == RLt(Zero, tilt)

\* whether binary_update() hands the throttle to the tilted motors
binary_fwd_thrust(tilt) == RLe(One, tilt)

\* Tiltrotor::binary_update()
binary_update(s, f, d) ==
    LET s0 == [ s EXCEPT !.motors_active = TRUE ]
    IN  IF ~f.in_vtol_mode
        THEN LET s1 == binary_slew(s0, f, TRUE)
                 new_throttle == RDiv(R(d.k_throttle), R(100))
                 mask == IF is_zero(new_throttle) THEN 0 ELSE param.tilt_mask
             IN  IF binary_fwd_thrust(s1.current_tilt)
                 THEN [ s1 EXCEPT !.fwd_out = [ called |-> TRUE,
                                                throttle |-> new_throttle,
                                                mask |-> mask ] ]
                 ELSE s1
        ELSE binary_slew(s0, f, FALSE)

\* the difference of time stamps stopping at 0 instead of wrapping
u32_sub_saturating(a, b) ==
    IF a[1] < b[1] \/ (a[1] = b[1] /\ a[2] < b[2])
    THEN << 0, 0 >>
    ELSE LET borrow == IF a[2] < b[2] THEN 1 ELSE 0
         IN  << a[1] - b[1] - borrow, (a[2] - b[2]) % HALF_WORD >>

\* a - b on uint32_t time stamps <<hi, lo>>
u32_sub(a, b) ==
    LET borrow == IF a[2] < b[2] THEN 1 ELSE 0
    IN  << (a[1] - b[1] - borrow) % HALF_WORD, (a[2] - b[2]) % HALF_WORD >>

\* the comparison letting through a time of exactly TILT_DELAY_MS
u32_over_delay_or_equal(a) == a[1] > 0 \/ a[2] >= TILT_DELAY_MS

\* a > TILT_DELAY_MS for a uint32_t a
u32_over_delay(a) == a[1] > 0 \/ a[2] > TILT_DELAY_MS

\* the disarmed tilt test not waiting for the delay
tilt_delay_over_at_once(c) == TRUE

\* the delay taken from boot instead of from the last arm change
tilt_delay_over_since_boot(c) == u32_over_delay(c.millis)

\* whether the disarmed tilt test of vectoring() may move the servos:
\* (now - hal.util->get_last_armed_change()) > TILT_DELAY_MS
tilt_delay_over(c) == u32_over_delay(u32_sub(c.millis, c.last_armed_change))

\* a tilt servo output without constrain_float()
tilt_servo_out_unconstrained(x) == RMul(R(SERVO_RANGE), x)

\* 1000 * constrain_float(x, 0, 1)
tilt_servo_out(x) == RMul(R(SERVO_RANGE), constrain_float(x, Zero, One))

\* the five set_output_scaled() calls of one branch of vectoring()
write_tilt_servos(s, branch, left, right, rear, rear_left, rear_right) ==
    [ s EXCEPT
        !.srv = [ @ EXCEPT !["k_tiltMotorLeft"] = left,
                           !["k_tiltMotorRight"] = right,
                           !["k_tiltMotorRear"] = rear,
                           !["k_tiltMotorRearLeft"] = rear_left,
                           !["k_tiltMotorRearRight"] = rear_right ],
        !.vec_call = [ branch |-> branch, written |-> TiltChannels ] ]

\* the yaw branches of vectoring(): left and rear left get +offset, right
\* and rear right get -offset, rear gets the base output
vector_yaw(s, branch, base_output, offset) ==
    write_tilt_servos(s, branch,
                      tilt_servo_out(RAdd(base_output, offset)),
                      tilt_servo_out(RSub(base_output, offset)),
                      tilt_servo_out(base_output),
                      tilt_servo_out(RAdd(base_output, offset)),
                      tilt_servo_out(RSub(base_output, offset)))

\* the fixed wing branches of vectoring(): tilt from elevons and elevator
vector_fixed_wing(s, branch, base_output, gain, d) ==
    LET right == RDiv(RMul(gain, R(d.k_elevon_right)), R(ANGLE_RANGE))
        left == RDiv(RMul(gain, R(d.k_elevon_left)), R(ANGLE_RANGE))
        mid == RDiv(RMul(gain, R(d.k_elevator)), R(ANGLE_RANGE))
    IN  write_tilt_servos(s, branch,
                          tilt_servo_out(RSub(base_output, right)),
                          tilt_servo_out(RSub(base_output, left)),
                          tilt_servo_out(RAdd(base_output, mid)),
                          tilt_servo_out(RAdd(base_output, left)),
                          tilt_servo_out(RAdd(base_output, right)))

\* Tiltrotor::vectoring()
vectoring(s, f, d, c) ==
    LET total_angle == R(90 + param.tilt_yaw_angle + param.fixed_angle)
        zero_out == RDiv(R(param.tilt_yaw_angle), total_angle)
        fixed_tilt_limit == RDiv(R(param.fixed_angle), total_angle)
        level_out == RSub(One, fixed_tilt_limit)
        base_output ==
            RAdd(zero_out, RMul(s.current_tilt, RSub(level_out, zero_out)))
        tilt_threshold == RDiv(R(param.max_angle_deg), R(90))
        no_yaw == RLt(tilt_threshold, s.current_tilt)
    IN  IF ~f.soft_armed /\ param.option_disarmed_tilt
        THEN IF tilt_delay_over(c)
             THEN IF f.in_vtol_mode
                  THEN LET yaw_out == RDiv(R(d.rudder_in), R(ANGLE_RANGE))
                       IN  vector_yaw(s, "test_yaw", base_output,
                                      RMul(yaw_out, zero_out))
                  ELSE vector_fixed_wing(s, "test_fixed_wing", base_output,
                                         RMul(param.fixed_gain, fixed_tilt_limit), d)
             ELSE [ s EXCEPT !.vec_call = [ branch |-> "wait", written |-> {} ] ]
        ELSE IF no_yaw
        THEN LET scaler == IF f.control_mode = "manual" THEN One ELSE d.scaler
                 gain == RMul(RMul(param.fixed_gain, fixed_tilt_limit), scaler)
             IN  vector_fixed_wing(s, "fixed_wing", base_output, gain, d)
        ELSE LET tilt_deg == RMul(s.current_tilt, R(90))
                 tilt_offset ==
                     constrain_float(
                         RAdd(RMul(d.yaw, cos_deg(tilt_deg)),
                              RMul(RMul(<< 1, 2 >>, d.roll), sin_deg(tilt_deg))),
                         R(-1), One)
             IN  vector_yaw(s, "hover", base_output, RMul(tilt_offset, zero_out))

\* update() without the test of enabled() and tilt_mask
update_without_guard(s, f, d, c) ==
    LET s1 == IF param.type = TILT_TYPE_BINARY
              THEN binary_update(s, f, d)
              ELSE continuous_update(s, f, d)
    IN  IF param.type = TILT_TYPE_VECTORED_YAW
        THEN vectoring(s1, f, d, c)
        ELSE s1

\* Tiltrotor::update()
update(s, f, d, c) ==
    IF ~enabled \/ param.tilt_mask = 0
    THEN s
    ELSE LET s1 == IF param.type = TILT_TYPE_BINARY
                   THEN binary_update(s, f, d)
                   ELSE continuous_update(s, f, d)
         IN  IF param.type = TILT_TYPE_VECTORED_YAW
             THEN vectoring(s1, f, d, c)
             ELSE s1

\* Tiltrotor::fully_fwd()
fully_fwd ==
    IF ~enabled \/ param.tilt_mask = 0 THEN FALSE ELSE RLe(One, current_tilt)

\* ------------------------------------------------------------------------
\* thrust compensation
\* ------------------------------------------------------------------------

\* Tiltrotor::is_motor_tilting(motor), declared in tiltrotor.h: bit motor of
\* tilt_mask.  Motor i of the C++ array is element i + 1 of a sequence.
is_motor_tilting(motor) == (param.tilt_mask \div (2 ^ motor)) % 2 = 1

\* first loop of tilt_compensate_angle(): apply the tilt factors
apply_tilt_factors(th, non_tilted_mul, tilted_mul) ==
    [ i \in DOMAIN th |->
        IF is_motor_tilting(i - 1)
        THEN RMul(th[i], tilted_mul)
        ELSE RMul(th[i], non_tilted_mul) ]

RECURSIVE tilt_total(_, _)
tilt_total(th, n) ==
    IF n = 0 THEN Zero
    ELSE IF is_motor_tilting(n - 1)
    THEN RAdd(tilt_total(th, n - 1), th[n])
    ELSE tilt_total(th, n - 1)

tilt_count(th) == Cardinality({ i \in DOMAIN th : is_motor_tilting(i - 1) })

\* second loop of tilt_compensate_angle(): equalise the tilted motors and
\* add the differential thrust for yaw
equalise(th, tilt, m) ==
    LET sin_tilt == sin_deg(RMul(tilt, R(90)))
        yaw_gain == sin_deg(R(param.tilt_yaw_angle))
        avg_tilt_thrust == RDiv(tilt_total(th, Len(th)), R(tilt_count(th)))
    IN  [ i \in DOMAIN th |->
            IF is_motor_tilting(i - 1)
            THEN LET blend == RAdd(RMul(tilt, avg_tilt_thrust),
                                   RMul(th[i], RSub(One, tilt)))
                     diff_thrust ==
                         RMul(RMul(RMul(m.roll_factor[i], m.yaw), sin_tilt),
                              yaw_gain)
                 IN  RAdd(blend, diff_thrust)
            ELSE th[i] ]

RECURSIVE largest_tilted(_, _)
largest_tilted(th, n) ==
    IF n = 0 THEN Zero
    ELSE IF is_motor_tilting(n - 1)
    THEN RMax(largest_tilted(th, n - 1), th[n])
    ELSE largest_tilted(th, n - 1)

\* the third loop scaling the tilted motors only
scale_tilted(th, scale) ==
    [ i \in DOMAIN th |->
        IF is_motor_tilting(i - 1) THEN RMul(th[i], scale) ELSE th[i] ]

\* third loop of tilt_compensate_angle(): thrust[i] *= scale for all motors
scale_all(th, scale) == [ i \in DOMAIN th |-> RMul(th[i], scale) ]

\* whether tilt_compensate_angle() scales the motors back
saturating(th) == RLt(One, largest_tilted(th, Len(th)))

\* Tiltrotor::tilt_compensate_angle(), up to the saturation test
tilt_compensate_preclip(th, tilt, m, non_tilted_mul, tilted_mul) ==
    equalise(apply_tilt_factors(th, non_tilted_mul, tilted_mul), tilt, m)

\* tilt_compensate_angle() without the saturation test
tilt_compensate_angle_unscaled(th, tilt, m, non_tilted_mul, tilted_mul) ==
    tilt_compensate_preclip(th, tilt, m, non_tilted_mul, tilted_mul)

\* Tiltrotor::tilt_compensate_angle()
tilt_compensate_angle(th, tilt, m, non_tilted_mul, tilted_mul) ==
    LET pre == tilt_compensate_preclip(th, tilt, m, non_tilted_mul, tilted_mul)
    IN  IF saturating(pre)
        THEN scale_all(pre, RDiv(One, largest_tilted(pre, Len(pre))))
        ELSE pre

\* the factor tilt_compensate() gives the non-tilted motors
non_tilted_factor(tilt, vtol) ==
    IF vtol THEN cos_deg(RMul(tilt, R(90))) ELSE One

\* the tilted motors never scaled up
tilted_factor_one(tilt, vtol) == One

\* the factor tilt_compensate() gives the tilted motors
tilted_factor(tilt, vtol) ==
    IF vtol THEN One
    ELSE IF RLt(<< 49, 50 >>, tilt)
    THEN RDiv(One, cos_deg(RMul(<< 49, 50 >>, R(90))))
    ELSE RDiv(One, cos_deg(RMul(tilt, R(90))))

\* whether tilt_compensate() returns at once
not_tilted(tilt) == RLe(tilt, Zero)

\* the thrust array of tilt_compensate() before the saturation test
tilt_compensate_pre(th, tilt, vtol, m) ==
    IF not_tilted(tilt) THEN th
    ELSE tilt_compensate_preclip(th, tilt, m, non_tilted_factor(tilt, vtol),
                                 tilted_factor(tilt, vtol))

\* tilt_compensate() without its early return
tilt_compensate_always(th, tilt, vtol, m) ==
    tilt_compensate_angle(th, tilt, m, non_tilted_factor(tilt, vtol),
                          tilted_factor(tilt, vtol))

\* Tiltrotor::tilt_compensate()
tilt_compensate(th, tilt, vtol, m) ==
    IF not_tilted(tilt) THEN th
    ELSE tilt_compensate_angle(th, tilt, m, non_tilted_factor(tilt, vtol),
                               tilted_factor(tilt, vtol))

\* ------------------------------------------------------------------------
\* parameters, flight contexts and demands the model draws from
\* ------------------------------------------------------------------------

\* loop times plane.G_Dt in seconds.  Only the product rate * G_Dt enters
\* the code; long loop times keep the number of tilts on the way from 0 to
\* 1 small: at 45 degrees per second a loop time of half a second moves
\* the tilt by a quarter.
DtSet == { << 1, 2 >>, << 1, 1 >> }

Modes == { "manual", "qautotune", "qhover", "auto" }

\* the parameters after setup() of a vehicle with two tilting motors
BaseParam ==
    [ enable |-> 1, setup_complete |-> TRUE, tilt_mask |-> 3,
      type |-> TILT_TYPE_CONTINUOUS,
      max_rate_up_dps |-> 45, max_rate_down_dps |-> 0, max_angle_deg |-> 45,
      tilt_yaw_angle |-> 10, fixed_angle |-> 20, fixed_gain |-> << 1, 2 >>,
      option_disarmed_tilt |-> FALSE ]

TiltTypes ==
    { TILT_TYPE_CONTINUOUS, TILT_TYPE_BINARY, TILT_TYPE_VECTORED_YAW,
      TILT_TYPE_BICOPTER }

\* every type, the continuous and the binary type also with a rate of
\* their own for tilting down, and a continuous tiltrotor whose VTOL tilt
\* limit is the full 90 degrees
TiltParams ==
    { [ BaseParam EXCEPT !.type = t ] : t \in TiltTypes }
    \cup { [ BaseParam EXCEPT !.type = t, !.max_rate_down_dps = 90 ] :
             t \in { TILT_TYPE_CONTINUOUS, TILT_TYPE_BINARY } }
    \cup { [ BaseParam EXCEPT !.max_angle_deg = 90 ] }

\* no mixer demand, no pilot input
NoDemand ==
    [ k_throttle |-> 0, throttle_min |-> 0, motors_throttle |-> Zero,
      rc_fwd_thr_ch |-> FALSE, forward_throttle_pct |-> 0,
      yaw |-> Zero, roll |-> Zero, rudder_in |-> 0,
      k_elevon_left |-> 0, k_elevon_right |-> 0, k_elevator |-> 0,
      scaler |-> One ]

\* throttle demands: the throttle output in percent, the hover throttle of
\* the mixer and the manual forward throttle input
TiltDemands ==
    { [ NoDemand EXCEPT !.k_throttle = t[1], !.motors_throttle = t[2],
                        !.rc_fwd_thr_ch = t[3], !.forward_throttle_pct = t[4] ] :
        t \in { << 0, Zero, FALSE, 0 >>,
                << 25, << 1, 2 >>, TRUE, 50 >>,
                << 100, << 1, 2 >>, TRUE, 100 >> } }

NoThrust == << >>

NoComp ==
    [ called |-> FALSE, thrust_in |-> << >>, preclip |-> << >>,
      motors |-> [ yaw |-> Zero, roll_factor |-> << >> ] ]

\* what update_yaw_target() reads: the pilot's yaw rate, the heading
\* ahrs.yaw_sensor and the bank demand nav_roll_cd in centidegrees, and the
\* airspeed estimate in m/s with the parameter ARSPD_FCBW_MIN
NoYawInput ==
    [ pilot_yaw_rate_cds |-> Zero, yaw_sensor |-> 0, have_airspeed |-> FALSE,
      aspeed |-> Zero, nav_roll_cd |-> 0, airspeed_min |-> 0 ]

\* the yaw tracker at boot and a caller that has not called yet:
\* transition_yaw_cd and transition_yaw_set_ms of Tiltrotor, the caller's
\* yaw_target_cd before (arg_in) and after the call, and the last call's
\* return value and inputs
NoYaw ==
    [ transition_yaw_cd |-> Zero, transition_yaw_set_ms |-> << 0, 0 >>,
      yaw_target_cd |-> Zero, arg_in |-> Zero, called |-> FALSE,
      returned |-> FALSE, inp |-> NoYawInput ]

\* the clock at boot.  since_change is the time since the last arm change in
\* milliseconds, as hi * 2^16 + lo with no limit on hi: unlike the uint32_t
\* time stamps it does not wrap.  ticks counts the steps of the clock.
BootClock ==
    [ millis |-> << 0, 0 >>, last_armed_change |-> << 0, 0 >>,
      since_change |-> << 0, 0 >>, ticks |-> 0 ]

\* the state after construction: rotors up, throttle 0, disarmed
InitMachine ==
    /\ current_tilt = Zero
    /\ current_throttle = Zero
    /\ motors_active = FALSE
    /\ clock = BootClock
    /\ demand = NoDemand
    /\ srv = [ ch \in TiltChannels \cup { "k_motor_tilt" } |-> Zero ]
    /\ fwd_out = NoFwdOut
    /\ slew_call = NoSlewCall
    /\ vec_call = NoVecCall
    /\ thrust = NoThrust
    /\ comp = NoComp
    /\ yaw = NoYaw
    /\ bicopter_call = NoBicopterCall

InitFlight ==
    [ control_mode |-> "manual", in_vtol_mode |-> FALSE, soft_armed |-> FALSE,
      assisted_flight |-> FALSE, G_Dt |-> << 1, 2 >>,
      transition_state |-> TRANSITION_AIRSPEED_WAIT,
      motor_test_running |-> FALSE ]

\* ------------------------------------------------------------------------
\* actions
\* ------------------------------------------------------------------------

\* one call of update() with the demands d
UpdateWith(d) ==
    \E s \in { update([ Machine EXCEPT !.fwd_out = NoFwdOut,
                                       !.slew_call = NoSlewCall,
                                       !.vec_call = NoVecCall ],
                      flight, d, clock) } :
        /\ demand' = d
        /\ current_tilt' = s.current_tilt
        /\ current_throttle' = s.current_throttle
        /\ motors_active' = s.motors_active
        /\ srv' = s.srv
        /\ fwd_out' = s.fwd_out
        /\ slew_call' = s.slew_call
        /\ vec_call' = s.vec_call
        /\ UNCHANGED << param, flight, clock, thrust, comp, yaw, bicopter_call >>

\* update() in a cycle of the main loop
Update == \E d \in TiltDemands : UpdateWith(d)

\* the pilot or the mission changes the control mode
ModeChange ==
    /\ \E m \in Modes \ { flight.control_mode } :
          flight' = [ flight EXCEPT !.control_mode = m ]
    /\ UNCHANGED << param, current_tilt, current_throttle, motors_active, clock,
                    demand, srv, fwd_out, slew_call, vec_call, thrust, comp, yaw, bicopter_call >>

\* the vehicle enters or leaves VTOL flight
VtolChange ==
    /\ flight' = [ flight EXCEPT !.in_vtol_mode = ~@ ]
    /\ UNCHANGED << param, current_tilt, current_throttle, motors_active, clock,
                    demand, srv, fwd_out, slew_call, vec_call, thrust, comp, yaw, bicopter_call >>

\* the VTOL motors start or stop assisting fixed wing flight; a forward
\* transition starts by waiting for airspeed
AssistChange ==
    /\ flight' = [ flight EXCEPT !.assisted_flight = ~@,
                                 !.transition_state = TRANSITION_AIRSPEED_WAIT ]
    /\ UNCHANGED << param, current_tilt, current_throttle, motors_active, clock,
                    demand, srv, fwd_out, slew_call, vec_call, thrust, comp, yaw, bicopter_call >>

\* an assisted forward transition has reached its airspeed and runs its
\* timer
TransitionChange ==
    /\ flight.assisted_flight
    /\ flight.transition_state = TRANSITION_AIRSPEED_WAIT
    /\ flight' = [ flight EXCEPT !.transition_state = TRANSITION_TIMER ]
    /\ UNCHANGED << param, current_tilt, current_throttle, motors_active, clock,
                    demand, srv, fwd_out, slew_call, vec_call, thrust, comp, yaw, bicopter_call >>

\* arming or disarming records the time of the change
ArmChange ==
    /\ flight' = [ flight EXCEPT !.soft_armed = ~@ ]
    /\ clock' = [ clock EXCEPT !.last_armed_change = clock.millis,
                                !.since_change = << 0, 0 >> ]
    /\ UNCHANGED << param, current_tilt, current_throttle, motors_active,
                    demand, srv, fwd_out, slew_call, vec_call, thrust, comp, yaw, bicopter_call >>

\* a motor test starts or ends
MotorTestChange ==
    /\ flight' = [ flight EXCEPT !.motor_test_running = ~@ ]
    /\ UNCHANGED << param, current_tilt, current_throttle, motors_active, clock,
                    demand, srv, fwd_out, slew_call, vec_call, thrust, comp, yaw, bicopter_call >>

\* a + b on time stamps <<hi, lo>>, not wrapping
time_add(a, b) ==
    << a[1] + b[1] + ((a[2] + b[2]) \div HALF_WORD), (a[2] + b[2]) % HALF_WORD >>

\* a + b on uint32_t time stamps
u32_add(a, b) == << time_add(a, b)[1] % HALF_WORD, time_add(a, b)[2] >>

\* the steps of the clock: 3000 ms and 2^32 - 750 ms
TickSteps == { << 0, 3000 >>, << 65535, 64786 >> }

\* the number of steps the clock takes
MaxTicks == 3

\* time passes: AP_HAL::millis() advances and wraps at 2^32
Tick ==
    /\ clock.ticks < MaxTicks
    /\ \E step \in TickSteps :
          clock' = [ clock EXCEPT !.millis = u32_add(@, step),
                                  !.since_change = time_add(@, step),
                                  !.ticks = @ + 1 ]
    /\ UNCHANGED << param, current_tilt, current_throttle, motors_active, flight,
                    demand, srv, fwd_out, slew_call, vec_call, thrust, comp, yaw, bicopter_call >>

\* the loop time plane.G_Dt is that of the scheduler's loop rate, one per run
Init ==
    /\ param \in TiltParams
    /\ flight \in { [ InitFlight EXCEPT !.G_Dt = dt ] : dt \in DtSet }
    /\ InitMachine

Next ==
    \/ Update
    \/ ModeChange
    \/ VtolChange
    \/ AssistChange
    \/ TransitionChange
    \/ ArmChange
    \/ MotorTestChange

Spec == Init /\ [][Next]_vars

\* ------------------------------------------------------------------------
\* the vectoring of a tilt-vectored vehicle
\* ------------------------------------------------------------------------

\* tilt-vectored vehicles, with and without the disarmed tilt test, with
\* and without fixed wing vectoring
VecParams ==
    { [ BaseParam EXCEPT !.type = TILT_TYPE_VECTORED_YAW,
                         !.option_disarmed_tilt = o,
                         !.tilt_yaw_angle = 10, !.fixed_angle = 20,
                         !.fixed_gain = R(2) ] : o \in BOOLEAN }
    \cup { [ BaseParam EXCEPT !.type = TILT_TYPE_VECTORED_YAW,
                              !.option_disarmed_tilt = TRUE,
                              !.max_rate_up_dps = 68, !.max_angle_deg = 80,
                              !.tilt_yaw_angle = 30, !.fixed_angle = 0,
                              !.fixed_gain = Zero ] }

\* throttle, yaw and roll demands of the mixer, rudder stick, elevon and
\* elevator outputs and the throttle and speed scaling of fixed wing
\* vectoring
VecDemands ==
    { [ NoDemand EXCEPT !.k_throttle = v[1], !.yaw = v[2], !.roll = v[3],
                        !.rudder_in = v[4], !.k_elevon_left = v[5],
                        !.k_elevon_right = v[6], !.k_elevator = v[7],
                        !.scaler = v[8] ] :
        v \in { << 50, One, One, ANGLE_RANGE, ANGLE_RANGE, -ANGLE_RANGE,
                   ANGLE_RANGE, R(12) >>,
                << 0, R(-1), << 1, 2 >>, -ANGLE_RANGE, -ANGLE_RANGE,
                   ANGLE_RANGE, -ANGLE_RANGE, << 1, 2 >> >> } }

\* update() of a tilt-vectored vehicle in a cycle of the main loop
UpdateVec == \E d \in VecDemands : UpdateWith(d)

InitVec ==
    /\ param \in VecParams
    /\ flight \in { [ InitFlight EXCEPT !.control_mode = m, !.G_Dt = One ] :
                      m \in { "manual", "auto" } }
    /\ InitMachine

NextVec ==
    \/ UpdateVec
    \/ VtolChange
    \/ ArmChange
    \/ Tick

SpecVec == InitVec /\ [][NextVec]_vars

\* ------------------------------------------------------------------------
\* the thrust compensation callback
\* ------------------------------------------------------------------------

\* the number of motors of the frame
NumMotors == 3

\* the tilts the callback is called at are the multiples of 1 / CompTiltSteps
\* and two tilts around the 0.98 of tilt_compensate()
CompTiltSteps == 2

CompTilts ==
    { Norm(k, CompTiltSteps) : k \in 0 .. CompTiltSteps }
    \cup { << 49, 50 >>, << 99, 100 >> }

\* frames with no tilting motor, with the front two motors tilting, with
\* the first and the third, and with the first three
CompParams ==
    { [ BaseParam EXCEPT !.tilt_mask = k, !.tilt_yaw_angle = 30 ] :
        k \in { 0, 3, 5, 7 } }

\* the thrusts the mixer asks of a motor; 6/5 is out of the range [0, 1]
ThrustLevels == { Zero, << 1, 2 >>, << 9, 10 >>, One, << 6, 5 >> }

ThrustArrays == [ 1 .. NumMotors -> ThrustLevels ]

\* yaw demand and roll factors of the mixer: motors alternate between the
\* two sides of the frame
MotorDemands ==
    { [ yaw |-> y,
        roll_factor |-> [ i \in 1 .. NumMotors |->
                            IF i % 2 = 1 THEN << -1, 2 >> ELSE << 1, 2 >> ] ] :
        y \in { R(-1), Zero, One } }

\* the mixer calls the thrust compensation callback with its thrust array
TiltCompensate ==
    /\ ~comp.called
    /\ thrust' = tilt_compensate(thrust, current_tilt, flight.in_vtol_mode,
                                 comp.motors)
    /\ comp' = [ comp EXCEPT
                   !.called = TRUE,
                   !.thrust_in = thrust,
                   !.preclip = tilt_compensate_pre(thrust, current_tilt,
                                                   flight.in_vtol_mode,
                                                   comp.motors) ]
    /\ UNCHANGED << param, current_tilt, current_throttle, motors_active, flight,
                    clock, demand, srv, fwd_out, slew_call, vec_call, yaw, bicopter_call >>

\* the mixer has filled its thrust array and is about to call the callback,
\* at any tilt of CompTilts, in VTOL flight or not
InitComp ==
    /\ param \in CompParams
    /\ flight \in { [ InitFlight EXCEPT !.in_vtol_mode = v ] : v \in BOOLEAN }
    /\ current_tilt \in CompTilts
    /\ thrust \in ThrustArrays
    /\ comp \in { [ NoComp EXCEPT !.motors = m ] : m \in MotorDemands }
    /\ current_throttle = Zero
    /\ motors_active = FALSE
    /\ clock = BootClock
    /\ demand = NoDemand
    /\ srv = [ ch \in TiltChannels \cup { "k_motor_tilt" } |-> Zero ]
    /\ fwd_out = NoFwdOut
    /\ slew_call = NoSlewCall
    /\ vec_call = NoVecCall
    /\ yaw = NoYaw
    /\ bicopter_call = NoBicopterCall

NextComp == TiltCompensate

SpecComp == InitComp /\ [][NextComp]_vars

\* ------------------------------------------------------------------------
\* properties of the tilt state
\* ------------------------------------------------------------------------

\* a step of update(): every other action of the main loop changes the
\* flight context or the clock, and update() changes neither
UpdateStep == flight' = flight /\ clock' = clock

\* C1: in every update() cycle, of every type and in every flight context,
\* slew() or binary_slew() is called exactly once and the tilt moves by at
\* most tilt_max_change(direction), taken with the rates, the loop time and
\* the flight context of that cycle and the direction the tilt moved in.
C1_TiltChangeBounded ==
    [][ UpdateStep =>
          /\ slew_call'.calls = 1
          /\ slew_call'.fn =
                 IF param.type = TILT_TYPE_BINARY THEN "binary_slew" ELSE "slew"
          /\ RLe(RAbs(RSub(current_tilt', current_tilt)),
                 tilt_max_change(flight, RLt(current_tilt', current_tilt))) ]_vars

\* a cycle in which the rate limit kept the tilt from reaching its target
C1_Witness ==
    /\ slew_call.fn = "slew"
    /\ RLt(slew_call.tilt_before, current_tilt)
    /\ RLt(current_tilt, slew_call.newtilt)
    /\ RSub(current_tilt, slew_call.tilt_before) = slew_call.max_change

\* C2: the tilt starts at 0 and stays within [0, 1], for manual forward
\* throttle inputs within [0, 100] percent and VTOL tilt limits of at most
\* 90 degrees.
C2_TiltInRange == RLe(Zero, current_tilt) /\ RLe(current_tilt, One)

\* a step that would have passed 1 ended at 1, with a VTOL tilt limit of 90
\* degrees
C2_Witness ==
    /\ param.max_angle_deg = 90
    /\ current_tilt = One
    /\ RLt(One, RAdd(slew_call.tilt_before, slew_call.max_change))
    /\ RLt(Zero, slew_call.tilt_before)

\* C4: a binary tiltrotor that is not in VTOL flight commands its tilt servo
\* fully forward in every cycle, whatever the tilt, and calls the masked
\* forward motor output only in cycles whose slew step has brought the tilt
\* to 1.
C4_BinaryThrottleWaitsForTilt ==
    [][ UpdateStep /\ param.type = TILT_TYPE_BINARY =>
          /\ ~flight.in_vtol_mode => srv'["k_motor_tilt"] = R(SERVO_RANGE)
          /\ fwd_out'.called => RLe(One, current_tilt')
          /\ RLt(current_tilt', One) => ~fwd_out'.called ]_vars

\* the first fixed wing cycle of a binary tiltrotor with its rotors up: the
\* servo is fully forward, the tilt lags and the motors are not yet used
\* for forward thrust
C4_Witness ==
    /\ param.type = TILT_TYPE_BINARY
    /\ slew_call.fn = "binary_slew"
    /\ slew_call.tilt_before = Zero
    /\ srv["k_motor_tilt"] = R(SERVO_RANGE)
    /\ RLt(current_tilt, One)
    /\ ~fwd_out.called

\* C10: a slew() whose target is the tilt it starts from leaves the tilt
\* unchanged, in every flight context, so the tilt stays at a target that
\* does not change.
C10_SlewIdempotentAtTarget ==
    slew_call.fn = "slew" /\ slew_call.newtilt = slew_call.tilt_before
        => current_tilt = slew_call.tilt_before

\* a cycle that started at a target between 0 and 1 and with a step that
\* could have moved the tilt
C10_Witness ==
    /\ slew_call.fn = "slew"
    /\ slew_call.newtilt = slew_call.tilt_before
    /\ RLt(Zero, slew_call.newtilt)
    /\ RLt(slew_call.newtilt, One)
    /\ RLt(Zero, slew_call.max_change)
    /\ current_tilt = slew_call.newtilt

\* ------------------------------------------------------------------------
\* properties of the vectored yaw outputs
\* ------------------------------------------------------------------------

\* the branches of vectoring() that move the servos of a disarmed vehicle
TestBranches == { "test_yaw", "test_fixed_wing" }

\* at least TILT_DELAY_MS since the last arm change, by the clock that does
\* not wrap
DelayElapsed == clock.since_change[1] > 0 \/ clock.since_change[2] >= TILT_DELAY_MS

\* C3: in a cycle of update() the disarmed tilt test of vectoring() (servos
\* from the rudder stick, or from elevons and elevator with the fixed gain)
\* runs only when the vehicle is not armed and at least 3000 ms have passed
\* since the last arm change.
C3_TestOnlyDisarmedAfterDelay ==
    [][ UpdateStep /\ vec_call'.branch \in TestBranches =>
            ~flight.soft_armed /\ DelayElapsed ]_vars

\* the disarmed tilt test moved the servos from the rudder stick after the
\* vehicle had been armed and disarmed again and the delay had passed
C3_Witness ==
    /\ vec_call.branch = "test_yaw"
    /\ ~flight.soft_armed
    /\ clock.last_armed_change # << 0, 0 >>
    /\ DelayElapsed
    /\ srv["k_tiltMotorLeft"] # srv["k_tiltMotorRight"]

\* C9: every value vectoring() writes to the five tilt servos is in
\* [0, 1000], on the test, fixed wing and hover branches, for any yaw, roll,
\* rudder, elevon, elevator and scaler.
C9_TiltServosInRange ==
    \A ch \in TiltChannels :
        RLe(Zero, srv[ch]) /\ RLe(srv[ch], R(SERVO_RANGE))

\* fixed wing vectoring whose elevon term takes one servo to the top of the
\* range and another to the bottom
C9_Witness ==
    /\ vec_call.branch = "fixed_wing"
    /\ vec_call.written = TiltChannels
    /\ RLt(One, demand.scaler)
    /\ srv["k_tiltMotorLeft"] = R(SERVO_RANGE)
    /\ srv["k_tiltMotorRight"] = Zero
    /\ RLt(Zero, srv["k_tiltMotorRear"])

\* ------------------------------------------------------------------------
\* properties of the thrust compensation
\* ------------------------------------------------------------------------

\* the motors of the frame, as indices of the thrust array
Motors == 1 .. NumMotors

TiltedMotors == { i \in Motors : is_motor_tilting(i - 1) }

\* the callback was called with all thrusts in [0, 1]
InputsInRange ==
    \A i \in Motors : RLe(Zero, comp.thrust_in[i]) /\ RLe(comp.thrust_in[i], One)

\* tilt_compensate_angle() ran and scaled all motors back
Rescaled == comp.called /\ ~not_tilted(current_tilt) /\ saturating(comp.preclip)

\* C5: after tilt_compensate() no thrust is over 1, for every thrust array
\* with all entries in [0, 1], every tilt mask, every tilt in [0, 1], in
\* VTOL flight or not, and for every yaw demand and roll factor.
C5_ThrustAtMostOne ==
    comp.called /\ InputsInRange => \A i \in Motors : RLe(thrust[i], One)

\* a call with thrusts in [0, 1] whose tilted motors were over 1 before the
\* motors were scaled back
C5_Witness ==
    /\ Rescaled
    /\ InputsInRange
    /\ comp.motors.yaw # Zero
    /\ \E i \in TiltedMotors : thrust[i] = One

\* the thrust compensator scenario: two tilted motors at thrust 0.9, tilt
\* 1.0, no yaw demand
C6_Scenario ==
    /\ comp.called
    /\ current_tilt = One
    /\ comp.motors.yaw = Zero
    /\ Cardinality(TiltedMotors) = 2
    /\ \A i \in TiltedMotors : comp.thrust_in[i] = << 9, 10 >>

\* C6 as claimed: in the scenario both tilted motors still have thrust 0.9
\* after tilt_compensate().
C6_Original ==
    C6_Scenario => \A i \in TiltedMotors : thrust[i] = << 9, 10 >>

\* C6 as amended: in the scenario both tilted motors still have thrust 0.9
\* after tilt_compensate() in VTOL flight; when not in VTOL flight they are
\* scaled by 1 / cos(0.98 * 90 degrees), saturate, and both end at 1.0.
C6_ScenarioByFlightMode ==
    C6_Scenario =>
        \A i \in TiltedMotors :
            thrust[i] = IF flight.in_vtol_mode THEN << 9, 10 >> ELSE One

\* the scenario when not in VTOL flight, with a third motor that is not
\* tilted and keeps its share
C6_Witness ==
    /\ C6_Scenario
    /\ ~flight.in_vtol_mode
    /\ Rescaled
    /\ \A i \in TiltedMotors : thrust[i] = One
    /\ \E i \in Motors \ TiltedMotors : RLt(Zero, thrust[i])

\* C7: when tilt_compensate_angle() scales the motors back, every motor,
\* tilted or not, is multiplied by 1 / largest_tilted: the ratios between
\* any two motors are those before the scaling, and the largest tilted motor
\* ends at exactly 1.
C7_RescaleKeepsRatios ==
    Rescaled =>
        LET largest == largest_tilted(comp.preclip, NumMotors)
        IN  /\ \A i \in Motors : thrust[i] = RDiv(comp.preclip[i], largest)
            /\ \A i, j \in Motors :
                   IF comp.preclip[j] = Zero
                   THEN thrust[j] = Zero
                   ELSE /\ thrust[j] # Zero
                        /\ RDiv(thrust[i], thrust[j])
                               = RDiv(comp.preclip[i], comp.preclip[j])
            /\ largest_tilted(thrust, NumMotors) = One

\* motors scaled back with a motor that is not tilted and two tilted motors
\* of different thrust
C7_Witness ==
    /\ Rescaled
    /\ \E i \in Motors \ TiltedMotors : RLt(Zero, comp.preclip[i])
    /\ \E i, j \in TiltedMotors :
           /\ RLt(Zero, comp.preclip[i])
           /\ RLt(comp.preclip[i], comp.preclip[j])
           /\ RLt(thrust[j], comp.preclip[j])

\* C8: tilt_compensate() called at a tilt of 0 (or less) leaves the thrust
\* array as it was, in VTOL flight or not and for any yaw demand.
C8_NoCompensationWhenUpright ==
    comp.called /\ not_tilted(current_tilt) => thrust = comp.thrust_in

\* a call at tilt 0 with a yaw demand and a tilted motor over 1, which
\* tilt_compensate_angle() would have scaled back
C8_Witness ==
    /\ comp.called
    /\ current_tilt = Zero
    /\ comp.motors.yaw # Zero
    /\ \E i \in TiltedMotors : RLt(One, comp.thrust_in[i])
    /\ thrust = comp.thrust_in

\* ------------------------------------------------------------------------
\* single calls of slew() and binary_slew()
\* ------------------------------------------------------------------------

\* tilt rates up and down in degrees per second, for every tilt type
SlewParams ==
    { [ BaseParam EXCEPT !.type = t, !.max_rate_up_dps = r[1],
                         !.max_rate_down_dps = r[2] ] :
        t \in TiltTypes, r \in { << 40, 0 >>, << 45, 90 >>, << 120, 30 >> } }

\* flight contexts at a call, with loop times of 20 ms and of half a second
SlewFlights ==
    { [ InitFlight EXCEPT !.control_mode = m, !.in_vtol_mode = v,
                          !.soft_armed = a, !.assisted_flight = h,
                          !.G_Dt = dt ] :
        m \in { "manual", "auto" }, v \in BOOLEAN, a \in BOOLEAN,
        h \in BOOLEAN, dt \in { << 1, 50 >>, << 1, 2 >> } }

\* tilts at a call and tilts asked for
SlewTilts == { Zero, << 1, 2 >>, One }

\* the outputs of a single call of slew() or binary_slew()
SlewResult(s) ==
    /\ current_tilt' = s.current_tilt
    /\ srv' = s.srv
    /\ slew_call' = s.slew_call
    /\ UNCHANGED << param, current_throttle, motors_active, flight, clock,
                    demand, fwd_out, vec_call, thrust, comp, yaw, bicopter_call >>

\* continuous_update() calls slew(newtilt)
SlewCall ==
    /\ param.type # TILT_TYPE_BINARY
    /\ slew_call.calls = 0
    /\ \E newtilt \in SlewTilts : SlewResult(slew(Machine, flight, newtilt))

\* binary_update() calls binary_slew(forward)
BinarySlewCall ==
    /\ param.type = TILT_TYPE_BINARY
    /\ slew_call.calls = 0
    /\ \E forward \in BOOLEAN :
          SlewResult(binary_slew(Machine, flight, forward))

InitSlew ==
    /\ param \in SlewParams
    /\ flight \in SlewFlights
    /\ current_tilt \in SlewTilts
    /\ current_throttle = Zero
    /\ motors_active = FALSE
    /\ clock = BootClock
    /\ demand = NoDemand
    /\ srv = [ ch \in TiltChannels \cup { "k_motor_tilt" } |-> Zero ]
    /\ fwd_out = NoFwdOut
    /\ slew_call = NoSlewCall
    /\ vec_call = NoVecCall
    /\ thrust = NoThrust
    /\ comp = NoComp
    /\ yaw = NoYaw
    /\ bicopter_call = NoBicopterCall

NextSlew == SlewCall \/ BinarySlewCall

SpecSlew == InitSlew /\ [][NextSlew]_vars

\* the argument up of the tilt_max_change() call recorded in slew_call:
\* slew() passes newtilt < current_tilt, binary_slew() passes !forward
CalledUp ==
    IF slew_call.fn = "binary_slew"
    THEN slew_call.newtilt = Zero
    ELSE RLt(slew_call.newtilt, slew_call.tilt_before)

\* manual mode, or armed fixed wing flight without assistance
FastTiltContext ==
    \/ flight.control_mode = "manual"
    \/ flight.soft_armed /\ ~flight.in_vtol_mode /\ ~flight.assisted_flight

\* the rate in degrees per second as stated: the rate up when moving up or
\* when the rate down is zero, else the rate down; at least 90 only for a
\* type other than binary, moving down, in a fast tilt context
StatedRate ==
    LET base == IF CalledUp \/ param.max_rate_down_dps = 0
                THEN param.max_rate_up_dps
                ELSE param.max_rate_down_dps
    IN  IF param.type # TILT_TYPE_BINARY /\ ~CalledUp /\ FastTiltContext
           /\ base < 90
        THEN 90
        ELSE base

\* rates 40 up and 0 down, a loop time of 0.02 s, no fast tilt, slew() from
\* tilt 0 towards 1
SlowSlewScenario ==
    /\ slew_call.fn = "slew"
    /\ param.max_rate_up_dps = 40
    /\ param.max_rate_down_dps = 0
    /\ flight.G_Dt = << 1, 50 >>
    /\ ~FastTiltContext
    /\ slew_call.tilt_before = Zero
    /\ slew_call.newtilt = One

\* C11: tilt_max_change(up) is rate * G_Dt / 90 with the rate up when
\* moving up or when the rate down is zero, else the rate down, raised to at
\* least 90 only for types other than binary, moving down, in manual mode or
\* armed and neither in VTOL mode nor assisted; never for the binary type.
\* With rates 40 and 0 and G_Dt 0.02, one slew() from 0 towards 1 without
\* fast tilt ends at 40 * 0.02 / 90.
C11_MaxChangeAsStated ==
    slew_call.calls = 1 =>
        /\ slew_call.max_change
               = RDiv(RMul(R(StatedRate), flight.G_Dt), R(90))
        /\ SlowSlewScenario => current_tilt = << 2, 225 >>

\* the scenario: one call of slew() from 0 towards 1 at 40 degrees per
\* second and 0.02 s
C11_Witness ==
    /\ SlowSlewScenario
    /\ slew_call.calls = 1
    /\ current_tilt = RDiv(RMul(R(40), << 1, 50 >>), R(90))

\* ------------------------------------------------------------------------
\* the yaw target of a forward transition
\* ------------------------------------------------------------------------

\* age in ms after which update_yaw_target() locks the yaw again
YAW_RELATCH_MS == 100

\* the bank demand in centidegrees above which a turn is followed
NAV_ROLL_MIN_CD == 1000

\* the least airspeed in m/s the turn rate is computed for
AIRSPEED_FLOOR == 5

\* a > ms for a uint32_t a and ms < 2^16
u32_over(a, ms) == a[1] > 0 \/ a[2] > ms

\* a uint32_t <<hi, lo>> converted to float
u32_float(a) == RAdd(RMul(R(a[1]), R(HALF_WORD)), R(a[2]))

\* fixedwing_turn_rate(bank_angle_deg, airspeed) of AP_Math, in degrees per
\* second: degrees(GRAVITY_MSS * tanf(radians(bank_angle_deg)) / airspeed),
\* with 9.81 for GRAVITY_MSS and 57.3 for a radian in degrees
fixedwing_turn_rate(bank_angle_deg, airspeed) ==
    LET tan_bank == RDiv(sin_deg(RAbs(bank_angle_deg)),
                         cos_deg(bank_angle_deg))
        signed == IF bank_angle_deg[1] < 0 THEN RNeg(tan_bank) ELSE tan_bank
    IN  RMul(RDiv(RMul(<< 981, 100 >>, signed), airspeed), << 573, 10 >>)

\* whether update_yaw_target() locks the yaw target to the heading
yaw_relatch(y, c, i) ==
    \/ u32_over(u32_sub(c.millis, y.transition_yaw_set_ms), YAW_RELATCH_MS)
    \/ ~is_zero(i.pilot_yaw_rate_cds)

\* update_yaw_target() following a turn at any bank demand
yaw_follows_turn_no_deadband(i) == i.have_airspeed

\* whether update_yaw_target() adds the yaw of a coordinated turn
yaw_follows_turn(i) ==
    i.have_airspeed /\ IAbs(i.nav_roll_cd) > NAV_ROLL_MIN_CD

\* Tiltrotor::update_yaw_target()
update_yaw_target(y, c, i) ==
    LET elapsed == u32_sub(c.millis, y.transition_yaw_set_ms)
        locked == IF yaw_relatch(y, c, i)
                  THEN R(i.yaw_sensor)
                  ELSE y.transition_yaw_cd
        dt == RMul(u32_float(elapsed), << 1, 1000 >>)
        airspeed_min == RMax(R(i.airspeed_min), R(AIRSPEED_FLOOR))
        yaw_rate_cds ==
            RMul(fixedwing_turn_rate(RMul(R(i.nav_roll_cd), << 1, 100 >>),
                                     RMax(i.aspeed, airspeed_min)),
                 R(100))
        turned == IF yaw_follows_turn(i)
                  THEN RAdd(locked, RMul(yaw_rate_cds, dt))
                  ELSE locked
    IN  [ y EXCEPT !.transition_yaw_cd = turned,
                   !.transition_yaw_set_ms = c.millis ]

\* Tiltrotor::is_vectored(): enabled() and _is_vectored as set by setup()
is_vectored ==
    enabled /\ param.tilt_mask # 0 /\ param.type = TILT_TYPE_VECTORED_YAW

\* the yaw target tracked whatever the vehicle and the transition state
yaw_tracked_always(f) == TRUE

\* whether Tiltrotor_Transition::update_yaw_target() tracks the yaw target
yaw_tracked(f) == is_vectored /\ f.transition_state <= TRANSITION_TIMER

\* Tiltrotor_Transition::update_yaw_target(yaw_target_cd), called with
\* arg for yaw_target_cd
transition_update_yaw_target(y, f, c, i, arg) ==
    IF ~yaw_tracked(f)
    THEN [ y EXCEPT !.yaw_target_cd = arg, !.arg_in = arg, !.called = TRUE,
                    !.returned = FALSE, !.inp = i ]
    ELSE LET y1 == update_yaw_target(y, c, i)
         IN  [ y1 EXCEPT !.yaw_target_cd = y1.transition_yaw_cd,
                         !.arg_in = arg, !.called = TRUE,
                         !.returned = TRUE, !.inp = i ]

\* what the tracker reads in a call: a turn at 20 degrees of bank with and
\* without pilot yaw, no airspeed estimate, a bank demand of 10 degrees,
\* pilot yaw alone, and a turn the other way at an airspeed under the floor
YawInputs ==
    { [ NoYawInput EXCEPT !.yaw_sensor = v[1], !.pilot_yaw_rate_cds = v[2],
                           !.have_airspeed = v[3], !.nav_roll_cd = v[4],
                           !.aspeed = v[5], !.airspeed_min = v[6] ] :
        v \in { << 9000, Zero, TRUE, 2000, R(20), 9 >>,
                << 18000, R(500), TRUE, 2000, R(20), 9 >>,
                << 9000, Zero, FALSE, 2000, Zero, 9 >>,
                << 18000, Zero, TRUE, 1000, R(20), 9 >>,
                << 9000, R(500), FALSE, 0, Zero, 9 >>,
                << 18000, Zero, TRUE, -2000, R(3), 0 >> } }

\* the value the caller's yaw_target_cd has before the call
YawArgs == { R(-100) }

\* a vectored yaw vehicle, a vehicle with continuous tilt, and a vectored
\* yaw vehicle with no tilting motor
YawParams ==
    { [ BaseParam EXCEPT !.type = TILT_TYPE_VECTORED_YAW ],
      BaseParam,
      [ BaseParam EXCEPT !.type = TILT_TYPE_VECTORED_YAW, !.tilt_mask = 0 ] }

\* the transition asks for the yaw target
YawTargetCall ==
    /\ \E i \in YawInputs, arg \in YawArgs :
          yaw' = transition_update_yaw_target(yaw, flight, clock, i, arg)
    /\ UNCHANGED << param, current_tilt, current_throttle, motors_active, flight,
                    clock, demand, srv, fwd_out, slew_call, vec_call, thrust,
                    comp, bicopter_call >>

\* the transition has run its timer and is done
TransitionDone ==
    /\ flight.transition_state = TRANSITION_TIMER
    /\ flight' = [ flight EXCEPT !.transition_state = TRANSITION_DONE ]
    /\ UNCHANGED << param, current_tilt, current_throttle, motors_active, clock,
                    demand, srv, fwd_out, slew_call, vec_call, thrust, comp,
                    yaw, bicopter_call >>

\* the steps of the clock between calls: 50 ms and 150 ms
YawTickSteps == { << 0, 50 >>, << 0, 150 >> }

\* the number of steps the clock takes between the calls
MaxYawTicks == 3

\* time passes between two calls
YawTick ==
    /\ clock.ticks < MaxYawTicks
    /\ \E step \in YawTickSteps :
          clock' = [ clock EXCEPT !.millis = u32_add(@, step),
                                  !.since_change = time_add(@, step),
                                  !.ticks = @ + 1 ]
    /\ UNCHANGED << param, current_tilt, current_throttle, motors_active, flight,
                    demand, srv, fwd_out, slew_call, vec_call, thrust, comp,
                    yaw, bicopter_call >>

\* an armed vehicle starting an assisted forward transition
InitYaw ==
    /\ param \in YawParams
    /\ flight = [ InitFlight EXCEPT !.control_mode = "auto",
                                    !.soft_armed = TRUE,
                                    !.assisted_flight = TRUE,
                                    !.G_Dt = One ]
    /\ InitMachine

NextYaw == YawTargetCall \/ TransitionChange \/ TransitionDone \/ YawTick

SpecYaw == InitYaw /\ [][NextYaw]_vars

\* a step in which the transition asks for the yaw target
YawCallStep == clock' = clock /\ flight' = flight

\* C12: Tiltrotor_Transition::update_yaw_target() returns false and leaves
\* the yaw target, the caller's argument and the time of the last update as
\* they were when the vehicle is not a vectored yaw vehicle or the transition
\* is past TRANSITION_TIMER; otherwise it returns true and the argument holds
\* the tracker's yaw target.
C12_YawTargetGuard ==
    [][ YawCallStep =>
          IF ~is_vectored \/ flight.transition_state > TRANSITION_TIMER
          THEN /\ ~yaw'.returned
               /\ yaw'.transition_yaw_cd = yaw.transition_yaw_cd
               /\ yaw'.yaw_target_cd = yaw'.arg_in
               /\ yaw'.transition_yaw_set_ms = yaw.transition_yaw_set_ms
          ELSE /\ yaw'.returned
               /\ yaw'.yaw_target_cd = yaw'.transition_yaw_cd ]_vars

\* a vectored yaw vehicle whose transition is done: the call returned false,
\* the target tracked earlier, the caller's value and the old time stamp are
\* still there
C12_Witness ==
    /\ is_vectored
    /\ flight.transition_state = TRANSITION_DONE
    /\ yaw.called
    /\ ~yaw.returned
    /\ yaw.transition_yaw_cd # Zero
    /\ yaw.yaw_target_cd = yaw.arg_in
    /\ yaw.yaw_target_cd # yaw.transition_yaw_cd
    /\ yaw.transition_yaw_set_ms # clock.millis

\* ------------------------------------------------------------------------
\* the disarmed tilt test and its delay
\* ------------------------------------------------------------------------

\* the time since the last arm change as a uint32_t counts it: modulo 2^32
ElapsedMod32 == << clock.since_change[1] % HALF_WORD, clock.since_change[2] >>

\* more than TILT_DELAY_MS since the last arm change, counted modulo 2^32
DelayPassedMod32 == ElapsedMod32[1] > 0 \/ ElapsedMod32[2] > TILT_DELAY_MS

\* the vehicle is disarmed and the option for the disarmed tilt test is set
TestWanted == ~flight.soft_armed /\ param.option_disarmed_tilt

\* vectoring() has driven the five tilt servos from the test inputs: from
\* the rudder stick in VTOL mode, from elevons and elevator otherwise
TestDriven ==
    /\ vec_call'.branch =
           IF flight.in_vtol_mode THEN "test_yaw" ELSE "test_fixed_wing"
    /\ vec_call'.written = TiltChannels

\* C13 as claimed: in every cycle with the vehicle disarmed, the option set
\* and at least 3000 ms since the last arm change, vectoring() drives the
\* five tilt servos from the test inputs.
C13_Original ==
    [][ UpdateStep /\ TestWanted /\ DelayElapsed => TestDriven ]_vars

\* C13 as amended: in every cycle with the vehicle disarmed, the option set
\* and more than 3000 ms since the last arm change, counted modulo 2^32,
\* vectoring() drives the five tilt servos from the test inputs; at exactly
\* 3000 ms it writes none of them.
C13_TestDrivenAfterDelay ==
    [][ UpdateStep /\ TestWanted =>
          /\ DelayPassedMod32 => TestDriven
          /\ clock.since_change = << 0, TILT_DELAY_MS >> =>
                 vec_call'.branch = "wait" /\ vec_call'.written = {} ]_vars

\* the test drove the servos of a vehicle in fixed wing flight from the
\* elevons, 6000 ms after it was disarmed
C13_Witness ==
    /\ TestWanted
    /\ ~flight.in_vtol_mode
    /\ clock.last_armed_change # << 0, 0 >>
    /\ clock.since_change = << 0, 6000 >>
    /\ vec_call.branch = "test_fixed_wing"
    /\ vec_call.written = TiltChannels
    /\ srv["k_tiltMotorRearLeft"] # srv["k_tiltMotorRearRight"]

\* ------------------------------------------------------------------------
\* properties of the yaw tracker
\* ------------------------------------------------------------------------

\* the call of this step ran Tiltrotor::update_yaw_target()
TrackerRan == YawCallStep /\ yaw'.returned

\* the call of this step found the yaw target older than 100 ms or a yaw
\* demand of the pilot
RelatchHeld == yaw_relatch(yaw, clock, yaw'.inp)

\* the call of this step had no airspeed estimate, or a bank demand of at
\* most 1000 centidegrees
NoTurnToFollow ==
    ~yaw'.inp.have_airspeed \/ IAbs(yaw'.inp.nav_roll_cd) <= NAV_ROLL_MIN_CD

\* C14 as claimed: when the tracker runs and the yaw target is older than
\* 100 ms or the pilot demands yaw, the yaw target after the call is the
\* measured heading; the yaw of a coordinated turn is added only in calls
\* where neither holds.
C14_Original ==
    [][ TrackerRan /\ RelatchHeld =>
            yaw'.transition_yaw_cd = R(yaw'.inp.yaw_sensor) ]_vars

\* C19: when the tracker runs, the yaw target is at most 100 ms old, the
\* pilot demands no yaw, and there is no airspeed estimate or the bank demand
\* is at most 1000 centidegrees, the call leaves the yaw target as it was and
\* sets the time of the last update to now.
C19_TargetKeptWithoutTurn ==
    [][ TrackerRan /\ ~RelatchHeld /\ NoTurnToFollow =>
            /\ yaw'.transition_yaw_cd = yaw.transition_yaw_cd
            /\ yaw'.transition_yaw_set_ms = clock.millis ]_vars

\* a call without an airspeed estimate and with a bank demand over the
\* limit, 50 ms after the target was locked to another heading: the target
\* is still that heading and the time of the last update is now
C19_Witness ==
    /\ yaw.called
    /\ yaw.returned
    /\ ~yaw.inp.have_airspeed
    /\ yaw.inp.nav_roll_cd > NAV_ROLL_MIN_CD
    /\ is_zero(yaw.inp.pilot_yaw_rate_cds)
    /\ yaw.transition_yaw_cd = R(18000)
    /\ yaw.inp.yaw_sensor = 9000
    /\ yaw.transition_yaw_set_ms = clock.millis
    /\ clock.millis = << 0, 200 >>

\* ------------------------------------------------------------------------
\* properties of continuous_update()
\* ------------------------------------------------------------------------

\* a cycle of update() that runs continuous_update()
ContinuousCycle == UpdateStep /\ enabled /\ param.type # TILT_TYPE_BINARY

\* not in VTOL mode, and disarmed or not in assisted flight
PureFixedWing ==
    ~flight.in_vtol_mode /\ (~flight.soft_armed \/ ~flight.assisted_flight)

\* output_motor_mask() called with throttle 0 and no motor
ForwardOutputZero == fwd_out' = [ called |-> TRUE, throttle |-> Zero, mask |-> 0 ]

\* C15 as claimed: in the pure fixed wing regime a disarmed vehicle ends the
\* cycle with current_throttle 0, motors not active and the forward output
\* called with throttle 0 and an empty mask, an armed one with motors
\* active; outside the regime motors are not active and the forward output
\* is not called.
C15_Original ==
    [][ ContinuousCycle =>
            IF PureFixedWing
            THEN IF ~flight.soft_armed
                 THEN /\ current_throttle' = Zero
                      /\ ~motors_active'
                      /\ ForwardOutputZero
                 ELSE motors_active'
            ELSE ~motors_active' /\ ~fwd_out'.called ]_vars

\* C15: as claimed, with the forward output of a disarmed vehicle called
\* (with throttle 0 and an empty mask) when no motor test is running and not
\* called at all while one is running.
C15_FixedWingThrottleAndOutput ==
    [][ ContinuousCycle =>
            IF PureFixedWing
            THEN IF ~flight.soft_armed
                 THEN /\ current_throttle' = Zero
                      /\ ~motors_active'
                      /\ (~flight.motor_test_running => ForwardOutputZero)
                      /\ (flight.motor_test_running => ~fwd_out'.called)
                 ELSE motors_active'
            ELSE ~motors_active' /\ ~fwd_out'.called ]_vars

\* a disarmed continuous tiltrotor in fixed wing flight, no motor test
\* running, after a cycle with full throttle demanded: the throttle is 0
\* and the forward output was called with throttle 0 for no motor
C15_Witness ==
    /\ param.type = TILT_TYPE_CONTINUOUS
    /\ PureFixedWing
    /\ ~flight.soft_armed
    /\ ~flight.motor_test_running
    /\ slew_call.fn = "slew"
    /\ demand.k_throttle = 100
    /\ current_throttle = Zero
    /\ ~motors_active
    /\ fwd_out = [ called |-> TRUE, throttle |-> Zero, mask |-> 0 ]

\* the forward throttle the mixer commands in this cycle, clamped to [0, 1]
CommandedThrottle == constrain_float(RDiv(R(demand'.k_throttle), R(100)), Zero, One)

\* current_throttle moved by at most max_change and not away from, nor
\* beyond, the target
MovedToward(target, max_change) ==
    /\ RLe(RAbs(RSub(current_throttle', current_throttle)), max_change)
    /\ \/ RLe(current_throttle, current_throttle') /\ RLe(current_throttle', target)
       \/ RLe(target, current_throttle') /\ RLe(current_throttle', current_throttle)

\* C16: in a cycle of the pure fixed wing regime with the vehicle armed,
\* current_throttle moves toward the commanded forward throttle by at most
\* tilt_max_change(down) while the tilt after the cycle's slew is below 1,
\* and is the commanded forward throttle, clamped to [0, 1], when the tilt
\* has reached 1; with a mixer throttle in [0, 1] current_throttle is in
\* [0, 1] in every state.
C16_ThrottleSlewedUntilForward ==
    /\ [](RLe(Zero, current_throttle) /\ RLe(current_throttle, One))
    /\ [][ ContinuousCycle /\ PureFixedWing /\ flight.soft_armed =>
               IF RLt(current_tilt', One)
               THEN MovedToward(CommandedThrottle, tilt_max_change(flight, FALSE))
               ELSE current_throttle' = CommandedThrottle ]_vars

\* an armed continuous tiltrotor in fixed wing flight, half way forward
\* after the cycle: of the full throttle demanded, current_throttle has
\* taken the half that one cycle allows
C16_Witness ==
    /\ param.type = TILT_TYPE_CONTINUOUS
    /\ PureFixedWing
    /\ flight.soft_armed
    /\ slew_call.fn = "slew"
    /\ slew_call.tilt_before = Zero
    /\ current_tilt = << 1, 2 >>
    /\ demand.k_throttle = 100
    /\ tilt_max_change(flight, FALSE) = << 1, 2 >>
    /\ current_throttle = << 1, 2 >>
    /\ motors_active

\* the VTOL regime of continuous_update(): every cycle not in the pure
\* fixed wing regime
VtolContext == ContinuousCycle /\ ~PureFixedWing

\* QACRO, QSTABILIZE or QHOVER
StabilizeTypeMode == flight.control_mode \in { "qacro", "qstabilize", "qhover" }

\* the manual forward throttle input of this cycle mapped to 0..1, or 0
\* when no such input is configured
ManualForwardTilt ==
    IF demand'.rc_fwd_thr_ch
    THEN RDiv(R(demand'.forward_throttle_pct), R(100))
    ELSE Zero

\* C17 as claimed: in the VTOL regime and a stabilize, acro or hover type
\* mode, slew() is called with 0 when no manual forward throttle input is
\* configured and with that input mapped to 0..1 otherwise, whatever the
\* transition timer and the throttle are.
C17_Original ==
    [][ VtolContext /\ StabilizeTypeMode =>
            /\ slew_call'.fn = "slew"
            /\ slew_call'.newtilt = ManualForwardTilt ]_vars

\* C17: as claimed when the vehicle is not in assisted flight; in assisted
\* flight the mode does not matter, and from the transition timer on slew()
\* is called with 1.
C17_ManualForwardTiltUnlessAssisted ==
    [][ VtolContext /\ StabilizeTypeMode =>
            /\ slew_call'.fn = "slew"
            /\ (~flight.assisted_flight =>
                   slew_call'.newtilt = ManualForwardTilt)
            /\ (flight.assisted_flight
                   /\ flight.transition_state >= TRANSITION_TIMER =>
                     slew_call'.newtilt = One) ]_vars

\* QHOVER in VTOL flight, not assisted, with the manual forward throttle at
\* 50 percent and the throttle output at 25 percent: slew() was called with
\* 1/2, where the throttle ramp would have asked for 1/4
C17_Witness ==
    /\ param.type = TILT_TYPE_CONTINUOUS
    /\ param.max_angle_deg = 45
    /\ flight.in_vtol_mode
    /\ flight.control_mode = "qhover"
    /\ ~flight.assisted_flight
    /\ demand.rc_fwd_thr_ch
    /\ demand.forward_throttle_pct = 50
    /\ demand.k_throttle = 25
    /\ slew_call.fn = "slew"
    /\ slew_call.newtilt = << 1, 2 >>

\* the cycle takes the last branch of continuous_update(): not QAUTOTUNE,
\* not a stabilize, acro or hover type mode out of assisted flight, and not
\* assisted flight from the transition timer on
ThrottleRampRule ==
    /\ VtolContext
    /\ flight.control_mode # "qautotune"
    /\ ~(~flight.assisted_flight /\ StabilizeTypeMode)
    /\ ~(flight.assisted_flight /\ flight.transition_state >= TRANSITION_TIMER)

\* Q_TILT_MAX as a tilt
MaxAngleTilt == RDiv(R(param.max_angle_deg), R(90))

\* C18: in a cycle under the throttle ramp rule slew() is called with a
\* tilt in [0, max_angle_deg/90], and a current_tilt of at most
\* max_angle_deg/90 before the cycle is at most that after it.
C18_RampWithinMaxAngle ==
    [][ ThrottleRampRule =>
            /\ slew_call'.fn = "slew"
            /\ RLe(Zero, slew_call'.newtilt)
            /\ RLe(slew_call'.newtilt, MaxAngleTilt)
            /\ (RLe(current_tilt, MaxAngleTilt) =>
                   RLe(current_tilt', MaxAngleTilt)) ]_vars

\* AUTO in VTOL flight with Q_TILT_MAX 45 and full throttle: slew() was
\* called with 1/2 and the tilt, a step below before the cycle, stopped
\* there
C18_Witness ==
    /\ param.type = TILT_TYPE_CONTINUOUS
    /\ param.max_angle_deg = 45
    /\ flight.in_vtol_mode
    /\ flight.control_mode = "auto"
    /\ ~flight.assisted_flight
    /\ demand.k_throttle = 100
    /\ slew_call.fn = "slew"
    /\ slew_call.newtilt = << 1, 2 >>
    /\ RLt(slew_call.tilt_before, << 1, 2 >>)
    /\ current_tilt = << 1, 2 >>

\* ------------------------------------------------------------------------
\* the delay of the disarmed tilt test when the millisecond counter wraps
\* ------------------------------------------------------------------------

\* more than TILT_DELAY_MS since the last arm change, by the clock that does
\* not wrap
TrueDelayPassed ==
    clock.since_change[1] > 0 \/ clock.since_change[2] > TILT_DELAY_MS

\* less than 2^32 ms since the last arm change
WithinCounterPeriod == clock.since_change[1] < HALF_WORD

\* AP_HAL::millis() has wrapped since the last arm change
CounterWrapped ==
    \/ clock.millis[1] < clock.last_armed_change[1]
    \/ /\ clock.millis[1] = clock.last_armed_change[1]
       /\ clock.millis[2] < clock.last_armed_change[2]

\* the vehicle is disarmed before and after the step
StaysDisarmed == ~flight.soft_armed /\ ~flight'.soft_armed

\* C20 as claimed: the test of the delay is open exactly when more than
\* 3000 ms have truly passed since the last arm change, and once open it is
\* open after every step that leaves the vehicle disarmed.
C20_Original ==
    /\ [](tilt_delay_over(clock) <=> TrueDelayPassed)
    /\ [][ StaysDisarmed /\ tilt_delay_over(clock) => tilt_delay_over(clock') ]_vars

\* C20: the test of the delay is open exactly when the time since the last
\* arm change, taken modulo 2^32, is over 3000 ms; up to 2^32 ms after the
\* arm change that is exactly when more than 3000 ms have truly passed,
\* whether the counter has wrapped or not, and an open test stays open
\* while the vehicle stays disarmed.
C20_DelayRobustWithinPeriod ==
    /\ [](tilt_delay_over(clock) <=> DelayPassedMod32)
    /\ [](WithinCounterPeriod => (tilt_delay_over(clock) <=> TrueDelayPassed))
    /\ [][ StaysDisarmed /\ tilt_delay_over(clock) /\ WithinCounterPeriod' =>
               tilt_delay_over(clock') ]_vars

\* the vehicle was disarmed 750 ms before the counter wrapped and 6000 ms
\* ago: the counter reads less than the time of the arm change, and the
\* test ran
C20_Witness ==
    /\ TestWanted
    /\ CounterWrapped
    /\ clock.since_change = << 0, 6000 >>
    /\ tilt_delay_over(clock)
    /\ vec_call.branch \in TestBranches
    /\ vec_call.written = TiltChannels

\* ------------------------------------------------------------------------
\* the tilt servos of a bicopter
\* ------------------------------------------------------------------------

\* SERVO_MAX of ArduPlane's defines.h: full travel of an angle servo, in
\* centidegrees
SERVO_MAX == 4500

\* a bicopter tilt servo output without constrain_float()
bicopter_tilt_out_unconstrained(tilt, mixed) ==
    RAdd(RSub(Zero, RMul(tilt, R(SERVO_MAX))), mixed)

\* constrain_float(-(current_tilt * SERVO_MAX) + mixed, -SERVO_MAX, SERVO_MAX)
bicopter_tilt_out(tilt, mixed) ==
    constrain_float(RAdd(RSub(Zero, RMul(tilt, R(SERVO_MAX))), mixed),
                    R(-SERVO_MAX), R(SERVO_MAX))

\* a tilt the mixer wrote, scaled down by tilt_yaw_angle / 90 when negative
\* and by cosf(current_tilt * M_PI_2)
bicopter_mixed(tilt, out) ==
    LET scaled == IF is_negative(out)
                  THEN RDiv(RMul(out, R(param.tilt_yaw_angle)), R(90))
                  ELSE out
    IN  RMul(scaled, cos_deg(RMul(tilt, R(90))))

\* Tiltrotor::bicopter_output() with the tilts m = <<left, right>> that
\* quadplane.motors_output() writes to the two tilt servos
bicopter_output(s, f, m) ==
    IF param.type # TILT_TYPE_BICOPTER \/ f.motor_test_running
    THEN [ srv |-> s.srv,
           call |-> [ NoBicopterCall EXCEPT !.branch = "skip" ] ]
    ELSE IF ~f.in_vtol_mode /\ fully_fwd
    THEN [ srv |-> [ s.srv EXCEPT !["k_tiltMotorLeft"] = R(-SERVO_MAX),
                                  !["k_tiltMotorRight"] = R(-SERVO_MAX) ],
           call |-> [ NoBicopterCall EXCEPT
                        !.branch = "forward",
                        !.written = { "k_tiltMotorLeft", "k_tiltMotorRight" } ] ]
    ELSE LET tilt_left == bicopter_mixed(s.current_tilt, m[1])
             tilt_right == bicopter_mixed(s.current_tilt, m[2])
         IN  [ srv |-> [ s.srv EXCEPT
                           !["k_tiltMotorLeft"] =
                               bicopter_tilt_out(s.current_tilt, tilt_left),
                           !["k_tiltMotorRight"] =
                               bicopter_tilt_out(s.current_tilt, tilt_right) ],
               call |-> [ branch |-> "mixed",
                          mixer |-> IF f.assisted_flight
                                    THEN "hold_stabilize"
                                    ELSE "full",
                          written |-> { "k_tiltMotorLeft", "k_tiltMotorRight" },
                          preclip |->
                              << bicopter_tilt_out_unconstrained(s.current_tilt,
                                                                 tilt_left),
                                 bicopter_tilt_out_unconstrained(s.current_tilt,
                                                                 tilt_right) >> ] ]

\* a bicopter, a bicopter with no motor in the tilt mask, and a continuous
\* tiltrotor
BicopterParams ==
    { [ BaseParam EXCEPT !.type = TILT_TYPE_BICOPTER ],
      [ BaseParam EXCEPT !.type = TILT_TYPE_BICOPTER, !.tilt_mask = 0 ],
      BaseParam }

\* tilts the mixer writes to the left and the right servo: none, full
\* travel either way, and values beyond full travel
MixerTilts ==
    { << Zero, Zero >>,
      << R(SERVO_MAX), R(-SERVO_MAX) >>,
      << R(-2250), R(2250) >>,
      << R(9000), R(-45000) >> }

\* one call of bicopter_output()
BicopterOutput ==
    /\ \E m \in MixerTilts :
         \E r \in { bicopter_output(Machine, flight, m) } :
            /\ srv' = r.srv
            /\ bicopter_call' = r.call
    /\ UNCHANGED << param, current_tilt, current_throttle, motors_active, flight,
                    clock, demand, fwd_out, slew_call, vec_call, thrust, comp,
                    yaw >>

InitBicopter ==
    /\ param \in BicopterParams
    /\ flight = InitFlight
    /\ InitMachine

NextBicopter ==
    \/ BicopterOutput
    \/ Update
    \/ VtolChange
    \/ AssistChange
    \/ MotorTestChange

SpecBicopter == InitBicopter /\ [][NextBicopter]_vars

\* a step in which bicopter_output() is called: none of what update() and
\* the flight context write changes
BicopterStep ==
    UNCHANGED << flight, demand, current_tilt, current_throttle, motors_active,
                 fwd_out, slew_call, vec_call >>

\* the two tilt servos of a bicopter
BicopterChannels == { "k_tiltMotorLeft", "k_tiltMotorRight" }

\* C21: a call of bicopter_output() writes no servo and calls no mixer when
\* the type is not bicopter or a motor test is running; not in VTOL mode
\* and fully forward it writes -SERVO_MAX to the left and the right tilt
\* servo and calls no mixer; otherwise it calls the mixer and writes values
\* in [-SERVO_MAX, SERVO_MAX] to the left and the right tilt servo.
C21_BicopterServosInRange ==
    [][ BicopterStep =>
            IF param.type # TILT_TYPE_BICOPTER \/ flight.motor_test_running
            THEN /\ srv' = srv
                 /\ bicopter_call'.written = {}
                 /\ bicopter_call'.mixer = "none"
            ELSE IF ~flight.in_vtol_mode /\ fully_fwd
            THEN /\ \A ch \in BicopterChannels : srv'[ch] = R(-SERVO_MAX)
                 /\ \A ch \in DOMAIN srv \ BicopterChannels : srv'[ch] = srv[ch]
                 /\ bicopter_call'.mixer = "none"
            ELSE /\ bicopter_call'.written = BicopterChannels
                 /\ bicopter_call'.mixer # "none"
                 /\ \A ch \in BicopterChannels :
                        /\ RLe(R(-SERVO_MAX), srv'[ch])
                        /\ RLe(srv'[ch], R(SERVO_MAX)) ]_vars

\* a bicopter half way forward whose mixer asked for more than full travel
\* on both servos: the left servo stopped at SERVO_MAX, the right one at
\* -SERVO_MAX
C21_Witness ==
    /\ param.type = TILT_TYPE_BICOPTER
    /\ ~flight.motor_test_running
    /\ current_tilt = << 1, 2 >>
    /\ bicopter_call.branch = "mixed"
    /\ RLt(R(SERVO_MAX), bicopter_call.preclip[1])
    /\ RLt(bicopter_call.preclip[2], R(-SERVO_MAX))
    /\ srv["k_tiltMotorLeft"] = R(SERVO_MAX)
    /\ srv["k_tiltMotorRight"] = R(-SERVO_MAX)

\* ------------------------------------------------------------------------
\* the tilt reaches the end it is sent to
\* ------------------------------------------------------------------------

\* a continuous and a binary tiltrotor, both with positive rates
FairParams == { BaseParam, [ BaseParam EXCEPT !.type = TILT_TYPE_BINARY ] }

InitFair ==
    /\ param \in FairParams
    /\ flight = InitFlight
    /\ InitMachine

NextFair ==
    \/ Update
    \/ ModeChange
    \/ VtolChange
    \/ AssistChange
    \/ TransitionChange
    \/ ArmChange

\* the main loop calls update() in every cycle, whatever else happens.
\* update() can be called in every state and its demands change from call to
\* call, so <<Update>>_vars is always enabled and weak fairness of Update is
\* that Update steps occur again and again.
SpecFair == InitFair /\ [][NextFair]_vars /\ []<><<Update>>_vars

\* the condition C22 names for a target of 1: for the binary type not in
\* VTOL mode; else the pure fixed wing regime, or assisted flight from the
\* transition timer on
FullForwardCondition ==
    IF param.type = TILT_TYPE_BINARY
    THEN ~flight.in_vtol_mode
    ELSE \/ PureFixedWing
         \/ flight.assisted_flight /\ flight.transition_state >= TRANSITION_TIMER

\* the same with QAUTOTUNE excepted, whose target is 0 in the VTOL regime
FullForwardTarget ==
    /\ FullForwardCondition
    /\ param.type # TILT_TYPE_BINARY /\ ~PureFixedWing =>
           flight.control_mode # "qautotune"

\* a binary tiltrotor in VTOL mode
BinaryInVtol == param.type = TILT_TYPE_BINARY /\ flight.in_vtol_mode

\* C22 as claimed, in the part a finite run can refute: a tilt of 1 stays at
\* 1 for as long as the named condition lasts.
C22_Original ==
    [][ FullForwardCondition /\ current_tilt = One =>
            current_tilt' = One ]_vars

\* C22: as claimed, with the condition of the continuous type in the VTOL
\* regime holding only out of QAUTOTUNE.
C22_TiltReachesItsEnd ==
    /\ FullForwardTarget ~>
           ((current_tilt = One /\ fully_fwd) \/ ~FullForwardTarget)
    /\ [][ FullForwardTarget /\ current_tilt = One =>
               current_tilt' = One ]_vars
    /\ BinaryInVtol ~> (current_tilt = Zero \/ ~BinaryInVtol)

\* a continuous tiltrotor in VTOL mode and in assisted flight with the
\* transition timer running: the last cycle brought the tilt to 1
C22_Witness ==
    /\ param.type = TILT_TYPE_CONTINUOUS
    /\ flight.in_vtol_mode
    /\ flight.assisted_flight
    /\ flight.transition_state = TRANSITION_TIMER
    /\ FullForwardTarget
    /\ slew_call.fn = "slew"
    /\ slew_call.newtilt = One
    /\ RLt(slew_call.tilt_before, One)
    /\ current_tilt = One
    /\ fully_fwd

\* ------------------------------------------------------------------------
\* what writes the tilt state
\* ------------------------------------------------------------------------

\* a vectored yaw vehicle, a binary tiltrotor, a vectored yaw vehicle with
\* no motor in the tilt mask, and a tiltrotor that is not enabled, which
\* setup() leaves without setup_complete
FrameParams ==
    { [ BaseParam EXCEPT !.type = TILT_TYPE_VECTORED_YAW ],
      [ BaseParam EXCEPT !.type = TILT_TYPE_BINARY ],
      [ BaseParam EXCEPT !.type = TILT_TYPE_VECTORED_YAW, !.tilt_mask = 0 ],
      [ BaseParam EXCEPT !.enable = 0, !.setup_complete = FALSE ] }

\* a thrust array of the mixer: every motor at 9/10
FrameThrusts == { [ i \in 1 .. NumMotors |-> << 9, 10 >> ] }

\* the mixer's yaw demand at its upper end
FrameMotors == { m \in MotorDemands : m.yaw = One }

\* calls of the yaw tracker with and without a yaw demand of the pilot
FrameYawInputs == { i \in YawInputs : ~i.have_airspeed }

\* the mixer calls tilt_compensate() with a thrust array, at the tilt the
\* vehicle has
CompensateCall ==
    /\ \E th \in FrameThrusts, m \in FrameMotors :
          /\ thrust' = tilt_compensate(th, current_tilt, flight.in_vtol_mode, m)
          /\ comp' = [ called |-> TRUE, thrust_in |-> th,
                       preclip |-> tilt_compensate_pre(th, current_tilt,
                                                       flight.in_vtol_mode, m),
                       motors |-> m ]
    /\ UNCHANGED << param, current_tilt, current_throttle, motors_active, flight,
                    clock, demand, srv, fwd_out, slew_call, vec_call, yaw,
                    bicopter_call >>

InitFrame ==
    /\ param \in FrameParams
    /\ flight = InitFlight
    /\ InitMachine

\* the transition asks for the yaw target
FrameYawCall ==
    /\ \E i \in FrameYawInputs, arg \in YawArgs :
          yaw' = transition_update_yaw_target(yaw, flight, clock, i, arg)
    /\ UNCHANGED << param, current_tilt, current_throttle, motors_active, flight,
                    clock, demand, srv, fwd_out, slew_call, vec_call, thrust,
                    comp, bicopter_call >>

NextFrame ==
    \/ Update
    \/ CompensateCall
    \/ FrameYawCall
    \/ VtolChange

SpecFrame == InitFrame /\ [][NextFrame]_vars

\* current_tilt, current_throttle and motors_active are as before the step
TiltStateKept ==
    /\ current_tilt' = current_tilt
    /\ current_throttle' = current_throttle
    /\ motors_active' = motors_active

\* a step of update(): it leaves the flight context and the arguments and
\* results of the callbacks alone
FrameUpdateStep ==
    UNCHANGED << flight, clock, thrust, comp, yaw >>

\* what continuous_update() or binary_update() leave for vectoring() in the
\* update() of this step
BeforeVectoring ==
    LET s == [ Machine EXCEPT !.fwd_out = NoFwdOut, !.slew_call = NoSlewCall,
                              !.vec_call = NoVecCall ]
    IN  IF param.type = TILT_TYPE_BINARY
        THEN binary_update(s, flight, demand')
        ELSE continuous_update(s, flight, demand')

\* C23: a call of tilt_compensate() or of update_yaw_target() leaves
\* current_tilt, current_throttle and motors_active as they were; so does
\* update() when the tiltrotor is not enabled or tilt_mask is 0, and then
\* fully_fwd() is false; vectoring() leaves the three as the tilt update
\* before it set them; and every step that changes current_tilt is an
\* update() that called slew() or binary_slew() on the tilt before the step.
C23_TiltStateWrittenBySlewOnly ==
    /\ []((~enabled \/ param.tilt_mask = 0) => ~fully_fwd)
    /\ [][ /\ (comp' # comp \/ thrust' # thrust \/ yaw' # yaw) => TiltStateKept
           /\ (FrameUpdateStep /\ (~enabled \/ param.tilt_mask = 0)) =>
                  TiltStateKept
           /\ (FrameUpdateStep /\ vec_call'.branch # "none") =>
                  /\ current_tilt' = BeforeVectoring.current_tilt
                  /\ current_throttle' = BeforeVectoring.current_throttle
                  /\ motors_active' = BeforeVectoring.motors_active
           /\ current_tilt' # current_tilt =>
                  /\ FrameUpdateStep
                  /\ slew_call'.fn \in { "slew", "binary_slew" }
                  /\ slew_call'.tilt_before = current_tilt ]_vars

\* a vectored yaw vehicle half way forward, its tilt servos written by
\* vectoring(): the thrust callback and the yaw tracker have both been
\* called and the tilt is what slew() left
C23_Witness ==
    /\ is_vectored
    /\ current_tilt = << 1, 2 >>
    /\ slew_call.fn = "slew"
    /\ vec_call.written = TiltChannels
    /\ comp.called
    /\ comp.thrust_in # thrust
    /\ yaw.called
    /\ yaw.returned

\* ------------------------------------------------------------------------
\* vectoring() of a disarmed vehicle
\* ------------------------------------------------------------------------

\* the branches vectoring() takes when the vehicle is armed
ArmedBranches == { "fixed_wing", "hover" }

\* C24: in a cycle with the vehicle disarmed, while the option for the
\* disarmed tilt test is set and no more than 3000 ms have passed since the
\* last arm change vectoring() takes none of its branches and leaves the
\* five tilt servos as they were; with the option not set it takes the
\* branch of an armed vehicle, fixed wing or hover, and writes the five.
C24_WaitWritesNothing ==
    [][ UpdateStep /\ is_vectored /\ ~flight.soft_armed =>
            /\ (param.option_disarmed_tilt /\ ~TrueDelayPassed =>
                   /\ vec_call'.branch = "wait"
                   /\ vec_call'.written = {}
                   /\ \A ch \in TiltChannels : srv'[ch] = srv[ch])
            /\ (~param.option_disarmed_tilt =>
                   /\ vec_call'.branch \in ArmedBranches
                   /\ vec_call'.written = TiltChannels) ]_vars

\* a vehicle with the option set that flew armed and was disarmed less than
\* 3000 ms ago: vectoring() waited, and the left and right tilt servos
\* still differ by the yaw of the last armed cycle
C24_Witness ==
    /\ TestWanted
    /\ ~TrueDelayPassed
    /\ vec_call.branch = "wait"
    /\ vec_call.written = {}
    /\ slew_call.fn = "slew"
    /\ srv["k_tiltMotorLeft"] # srv["k_tiltMotorRight"]

====
